---- MODULE Spec2Model ----
(***************************************************************************)
(* CodeWatchService of tokenring-ai/code-watch: the watcher event handler, *)
(* the modifiedFiles set, the processNextFile batch loop, the comment      *)
(* scanner and the code-modification call, for the three generations of    *)
(* the service kept in the repository:                                     *)
(*   "registry"   src/CodeWatchService.ts (and its twin CodeWatchService.js)*)
(*   "agentTeam"  src/unnamed/part_001                                     *)
(*   "app"        src/unnamed/part_002                                     *)
(***************************************************************************)
EXTENDS Integers, Sequences, FiniteSets, TLC

(***************************************************************************)
(* Bounds of the model and constants of the program.                       *)
(***************************************************************************)
\* watcher events (add, change, unlink) delivered in one behaviour
MaxEvents == 3
\* external writes and deletions of watched files in one behaviour
MaxEdits == 1
\* the clock advances in steps of this many milliseconds
TickMs == 1000
\* stabilityThreshold handed to fileSystem.watch
StabilityThreshold == 2000
\* default of the concurrency setting in CodeWatchConfigSchema
Concurrency == 1
\* pieces a content handed to the scanner is put together from
MaxTokens == 4

\* startWatching and stopWatching calls made in one behaviour
MaxCalls == 3

Variants == {"registry", "agentTeam", "app"}
Paths == {"a.py", "b.js"}
EventTypes == {"add", "change", "unlink"}

\* contents a watched file can have
PlainText == "x = 1\ny = 2"
ModifyText == "def f():\n  # AI! refactor loop\n  pass"
TwoModifyText == "// AI! Add error handling\n// what now AI?\n# fix this AI!"
Texts == {PlainText, ModifyText, TwoModifyText}
Missing == "<missing>"

\* the pieces of the contents the scanner is tried on, and those contents
Tokens == {"#", "# ", "//", "// ", "AI", "AI! ", "AI?", "x ", "  ", "\n"}

RECURSIVE Concats(_)
Concats(n) ==
    IF n = 0 THEN {""}
    ELSE LET shorter == Concats(n - 1)
         IN shorter \cup {s \o t : s \in shorter, t \in Tokens}

ScanTexts == Concats(MaxTokens)

(***************************************************************************)
(* String primitives of the JavaScript runtime, as the service uses them.  *)
(***************************************************************************)
startsWith(s, prefix) ==
    /\ Len(s) >= Len(prefix)
    /\ SubSeq(s, 1, Len(prefix)) = prefix

endsWith(s, suffix) ==
    /\ Len(s) >= Len(suffix)
    /\ SubSeq(s, Len(s) - Len(suffix) + 1, Len(s)) = suffix

includes(s, part) ==
    \E j \in 1..(Len(s) - Len(part) + 1) : SubSeq(s, j, j + Len(part) - 1) = part

\* s.substring(n): the characters from 0-based position n on
substring(s, n) == SubSeq(s, n + 1, Len(s))

IsWhiteSpace(c) == c \in {" ", "\t", "\r", "\n"}

RECURSIVE trimStart(_)
trimStart(s) ==
    IF Len(s) > 0 /\ IsWhiteSpace(SubSeq(s, 1, 1))
    THEN trimStart(SubSeq(s, 2, Len(s)))
    ELSE s

RECURSIVE trimEnd(_)
trimEnd(s) ==
    IF Len(s) > 0 /\ IsWhiteSpace(SubSeq(s, Len(s), Len(s)))
    THEN trimEnd(SubSeq(s, 1, Len(s) - 1))
    ELSE s

trim(s) == trimEnd(trimStart(s))

\* text.split("\n"): the pieces between newlines, empty pieces included
RECURSIVE splitFrom(_, _, _)
splitFrom(text, from, j) ==
    IF j > Len(text) THEN <<SubSeq(text, from, Len(text))>>
    ELSE IF SubSeq(text, j, j) = "\n"
         THEN <<SubSeq(text, from, j - 1)>> \o splitFrom(text, j + 1, j + 1)
         ELSE splitFrom(text, from, j + 1)

split(text) == splitFrom(text, 1, 1)

(***************************************************************************)
(* The comment scanner.                                                    *)
(***************************************************************************)
\* handleAIComment: the comment marker is removed, then the kind is chosen
commentContent(commentLine) ==
    IF startsWith(commentLine, "# ") THEN substring(commentLine, 2)
    ELSE IF startsWith(commentLine, "// ") THEN substring(commentLine, 3)
    ELSE trim(commentLine)

\* a handleAIComment that tests the question marker first
handleAIComment_questionFirst(commentLine) ==
    IF includes(commentLine, "AI?") THEN "Question"
    ELSE IF includes(commentContent(commentLine), "AI!") THEN "Modify"
    ELSE IF includes(commentLine, "AI") THEN "Note"
    ELSE "None"

\* a handleAIComment whose question branch is wired to the modification
handleAIComment_questionModifies(commentLine) ==
    IF includes(commentContent(commentLine), "AI!") THEN "Modify"
    ELSE IF includes(commentLine, "AI?") THEN "Modify"
    ELSE IF includes(commentLine, "AI") THEN "Note"
    ELSE "None"

\* a handleAIComment whose last branch is wired to the modification
handleAIComment_noteModifies(commentLine) ==
    IF includes(commentContent(commentLine), "AI!") THEN "Modify"
    ELSE IF includes(commentLine, "AI?") THEN "Question"
    ELSE IF includes(commentLine, "AI") THEN "Modify"
    ELSE "None"

handleAIComment(commentLine) ==
    IF includes(commentContent(commentLine), "AI!") THEN "Modify"
    ELSE IF includes(commentLine, "AI?") THEN "Question"
    ELSE IF includes(commentLine, "AI") THEN "Note"
    ELSE "None"

\* a checkAndTriggerAIAction that accepts the marker anywhere in the line
checkAndTriggerAIAction_anywhere(line) ==
    IF includes(line, "AI") THEN handleAIComment(line) ELSE "None"

\* checkAndTriggerAIAction: the line is a directive by prefix or by suffix
checkAndTriggerAIAction(line) ==
    IF startsWith(line, "# AI") \/ startsWith(line, "// AI")
    THEN handleAIComment(line)
    ELSE IF endsWith(line, "AI") \/ endsWith(line, "AI!") \/ endsWith(line, "AI?")
         THEN handleAIComment(line)
         ELSE "None"

\* a line loop without the tests for "#" and "//"
lineKind_noCommentTest(rawLine) == checkAndTriggerAIAction(trim(rawLine))

\* body of the line loop of processFileForAIComments for one raw line
lineKind(rawLine) ==
    LET line == trim(rawLine) IN
    IF startsWith(line, "#") THEN checkAndTriggerAIAction(line)
    ELSE IF startsWith(line, "//") THEN checkAndTriggerAIAction(line)
    ELSE "None"

\* the line number processFileForAIComments hands on for loop index i
lineNumberOf_zeroBased(i) == i

lineNumberOf(i) == i + 1

\* what one pass of the line loop hands to handleAIComment: nothing, or the
\* line number, the action chosen and the content with the marker removed
triggerOf(rawLine, i) ==
    LET kind == lineKind(rawLine) IN
    IF kind = "None" THEN <<>>
    ELSE <<[lineNumber |-> lineNumberOf(i), kind |-> kind,
            instructionText |-> commentContent(trim(rawLine))]>>

\* a line loop in which every directive calls triggerCodeModification
RECURSIVE nextModify_anyDirective(_, _)
nextModify_anyDirective(lines, from) ==
    IF from > Len(lines) THEN 0
    ELSE IF lineKind(lines[from]) # "None" THEN from
    ELSE nextModify_anyDirective(lines, from + 1)

\* the 1-based number of the first line at or after from that calls
\* triggerCodeModification, 0 when there is none
RECURSIVE nextModify(_, _)
nextModify(lines, from) ==
    IF from > Len(lines) THEN 0
    ELSE IF lineKind(lines[from]) = "Modify" THEN from
    ELSE nextModify(lines, from + 1)

(***************************************************************************)
(* State of the service, of the file system and of the observer.           *)
(***************************************************************************)
VARIABLES
    variant,          \* which generation of CodeWatchService runs
    modifiedFiles,    \* this.modifiedFiles, a Set in insertion order
    isProcessing,     \* this.isProcessing
    loops,            \* the processNextFile calls suspended at an await
    files,            \* content of each watched file, or Missing
    errorLog,         \* paths reported by console.error / serviceError
    thrown,           \* paths whose processFileForAIComments call threw
    nEvents,          \* watcher events delivered so far
    nEdits,           \* external edits made so far
    lastEvent,        \* the most recent watcher event
    changes,          \* add/change events delivered, per path
    enqLog,           \* paths in the order they were inserted into modifiedFiles
    scanLog,          \* paths in the order processFileForAIComments was called
    unlinkedPending,  \* path got an unlink while in modifiedFiles, no add/change since
    staleTakes,       \* paths taken into a batch while unlinkedPending
    sinceEvent,       \* milliseconds since the last add/change event, per path,
                      \* counted up to StabilityThreshold
    earlyTakes,       \* paths taken into a batch before StabilityThreshold had passed
    burstTasks,       \* batches that took the path since its burst of events began
    rerun,            \* path got an add/change while it was being processed and
                      \* has not been taken into a batch since
    lastTrigger,      \* the triggerCodeModification call that ended in the step
                      \* just taken, if one did: path, line number and line,
                      \* sessions created, state of the session when the call
                      \* ended, whether deleteAgent had deleted the agent, and
                      \* what made the call fail if it did
    scanText,         \* a content handed to the line loop on its own
    scanPos,          \* lines of scanText the line loop has gone through
    triggers,         \* the handleAIComment calls made for scanText so far
    watcher,          \* this.watcher: "watching" once startWatching has run,
                      \* "closing" while its close() is awaited, then "closed"
    thisWatcher,      \* the watcher this.watcher names, NoWatcher for null
    openWatchers,     \* the watchers made by fileSystem.watch and not closed
    made,             \* watchers made so far; they are numbered 1..made
    watchCalls,       \* the startWatching and stopWatching calls suspended
                      \* at an await
    nCalls            \* startWatching and stopWatching calls made so far

vars == <<variant, modifiedFiles, isProcessing, loops, files, errorLog, nEvents,
          nEdits, lastEvent, changes, enqLog, scanLog, unlinkedPending,
          staleTakes, sinceEvent, earlyTakes, burstTasks, thrown, rerun,
          lastTrigger, scanText, scanPos, triggers, watcher, thisWatcher,
          openWatchers, made, watchCalls, nCalls>>

scanVars == <<scanText, scanPos, triggers>>

watchVars == <<thisWatcher, openWatchers, made, watchCalls, nCalls>>

NoWatcher == 0

Never == 0 - 1
NoEvent == [kind |-> "none", path |-> "none"]
NoTrigger ==
    [path |-> "none", lineNumber |-> 0, line |-> "", sessions |-> 0,
     session |-> "none", deleted |-> FALSE, failed |-> "none"]

InSeq(x, seq) == \E j \in 1..Len(seq) : seq[j] = x
Count(x, seq) == Cardinality({j \in 1..Len(seq) : seq[j] = x})
RemoveAt(seq, j) == SubSeq(seq, 1, j - 1) \o SubSeq(seq, j + 1, Len(seq))
IsPrefix(s, t) == Len(s) <= Len(t) /\ SubSeq(t, 1, Len(s)) = s

\* the part of the state the service's own code reads and writes, as one
\* value, at the start of a step: no triggerCodeModification call has ended
\* in it yet
St ==
    [modifiedFiles |-> modifiedFiles, isProcessing |-> isProcessing,
     loops |-> loops, errorLog |-> errorLog, enqLog |-> enqLog,
     scanLog |-> scanLog, staleTakes |-> staleTakes, earlyTakes |-> earlyTakes,
     burstTasks |-> burstTasks, unlinkedPending |-> unlinkedPending,
     sinceEvent |-> sinceEvent, thrown |-> thrown, rerun |-> rerun,
     lastTrigger |-> NoTrigger]

\* the service's variables take the values of S; T is S, worked out once
Becomes(S) ==
    \E T \in {S} :
        /\ modifiedFiles' = T.modifiedFiles
        /\ isProcessing' = T.isProcessing
        /\ loops' = T.loops
        /\ errorLog' = T.errorLog
        /\ enqLog' = T.enqLog
        /\ scanLog' = T.scanLog
        /\ staleTakes' = T.staleTakes
        /\ earlyTakes' = T.earlyTakes
        /\ burstTasks' = T.burstTasks
        /\ unlinkedPending' = T.unlinkedPending
        /\ sinceEvent' = T.sinceEvent
        /\ thrown' = T.thrown
        /\ rerun' = T.rerun
        /\ lastTrigger' = T.lastTrigger

InitService ==
    /\ variant \in Variants
    /\ modifiedFiles = <<>>
    /\ isProcessing = FALSE
    /\ loops = <<>>
    /\ files \in [Paths -> {PlainText, ModifyText}]
    /\ errorLog = <<>>
    /\ nEvents = 0
    /\ nEdits = 0
    /\ lastEvent = NoEvent
    /\ changes = [p \in Paths |-> 0]
    /\ enqLog = <<>>
    /\ scanLog = <<>>
    /\ unlinkedPending = [p \in Paths |-> FALSE]
    /\ staleTakes = {}
    /\ sinceEvent = [p \in Paths |-> Never]
    /\ earlyTakes = {}
    /\ thrown = <<>>
    /\ rerun = [p \in Paths |-> FALSE]
    /\ burstTasks = [p \in Paths |-> 0]
    /\ lastTrigger = NoTrigger

\* start() has run: its startWatching call has made the first watcher
Started ==
    /\ watcher = "watching"
    /\ thisWatcher = 1
    /\ openWatchers = {1}
    /\ made = 1
    /\ watchCalls = <<>>
    /\ nCalls = 0

Init ==
    /\ Started
    /\ InitService
    /\ scanText = ""
    /\ scanPos = 0
    /\ triggers = <<>>

(***************************************************************************)
(* The service's code, as functions from state to state.  A call runs      *)
(* without interruption up to its next await.                              *)
(***************************************************************************)
\* a plain list in place of the Set: every add appends
SetAdd_alwaysAppends(set, value) == Append(set, value)

\* a Set that iterates newest first
SetAdd_prepends(set, value) == IF InSeq(value, set) THEN set ELSE <<value>> \o set

\* Set.prototype.add: a value already present keeps its place
SetAdd(set, value) == IF InSeq(value, set) THEN set ELSE Append(set, value)

Elements(seq) == {seq[j] : j \in 1..Len(seq)}

\* the current file of a loop
filePath(L) == L.myFiles[L.k]

\* a processNextFile call about to await the read of myFiles[k]: no content
\* read yet, no triggerCodeModification call under way
loopAt(myFiles, k) ==
    [myFiles |-> myFiles, k |-> k, pc |-> "getFile", text |-> "",
     lines |-> <<>>, i |-> 0, fileText |-> "", sessions |-> 0,
     session |-> "none", deleted |-> FALSE, invoked |-> <<>>,
     skipped |-> 0, reports |-> <<>>]

\* a takeBatch that leaves the setting of isProcessing for after its
\* first await
takeBatch_lateFlag(S) ==
    LET myFiles == S.modifiedFiles
        taken == Elements(myFiles)
    IN [S EXCEPT
          !.modifiedFiles = <<>>,
          !.loops = Append(@, loopAt(myFiles, 1)),
          !.scanLog = Append(@, myFiles[1]),
          !.staleTakes = @ \cup {p \in taken : S.unlinkedPending[p]},
          !.earlyTakes = @ \cup {p \in taken : S.sinceEvent[p] < StabilityThreshold},
          !.burstTasks = [p \in Paths |->
                            IF p \in taken THEN S.burstTasks[p] + 1
                            ELSE S.burstTasks[p]],
          !.rerun = [p \in Paths |-> S.rerun[p] /\ p \notin taken]]

\* processNextFile from the swap of modifiedFiles to the first await of the
\* first processFileForAIComments call
takeBatch(S) ==
    LET myFiles == S.modifiedFiles
        taken == Elements(myFiles)
    IN [S EXCEPT
          !.modifiedFiles = <<>>,
          !.isProcessing = TRUE,
          !.loops = Append(@, loopAt(myFiles, 1)),
          !.scanLog = Append(@, myFiles[1]),
          !.staleTakes = @ \cup {p \in taken : S.unlinkedPending[p]},
          !.earlyTakes = @ \cup {p \in taken : S.sinceEvent[p] < StabilityThreshold},
          !.burstTasks = [p \in Paths |->
                            IF p \in taken THEN S.burstTasks[p] + 1
                            ELSE S.burstTasks[p]],
          !.rerun = [p \in Paths |-> S.rerun[p] /\ p \notin taken]]

\* processNextFile without its isProcessing test
processNextFile_noGuard(S) ==
    IF Len(S.modifiedFiles) = 0 THEN S ELSE takeBatch(S)

processNextFile(S) ==
    IF S.isProcessing THEN S
    ELSE IF Len(S.modifiedFiles) = 0 THEN S
    ELSE takeBatch(S)

\* the end of the for loop of processNextFile: the flag is reset and the
\* function calls itself; part_002 hands the unbound method to
\* app.trackPromise instead, which cannot run it on this service
loopEnd(S, w) ==
    LET S1 == [S EXCEPT !.loops = RemoveAt(@, w), !.isProcessing = FALSE]
    IN IF variant = "app" THEN S1 ELSE processNextFile(S1)

\* processFileForAIComments returned or its error was caught: next file
fileDone(S, w) ==
    LET L == S.loops[w] IN
    IF L.k < Len(L.myFiles)
    THEN [S EXCEPT
            !.loops[w] = loopAt(L.myFiles, L.k + 1),
            !.scanLog = Append(@, L.myFiles[L.k + 1])]
    ELSE loopEnd(S, w)

\* a catch block that puts the failed path back into modifiedFiles
fileError_retries(S, w) ==
    LET p == filePath(S.loops[w]) IN
    fileDone([S EXCEPT !.thrown = Append(@, p), !.errorLog = Append(@, p),
                       !.modifiedFiles = SetAdd(@, p)], w)

\* an exception inside processFileForAIComments.  CodeWatchService.ts
\* catches it in processFileForAIComments, part_002 in processNextFile; the
\* catch block of part_001 calls this.agentTeam.serviceError, and
\* this.agentTeam is never assigned, so the catch block throws and the
\* processNextFile call ends there
fileError(S, w) ==
    LET p == filePath(S.loops[w])
        S1 == [S EXCEPT !.thrown = Append(@, p)]
    IN IF variant = "agentTeam"
       THEN [S1 EXCEPT !.loops = RemoveAt(@, w)]
       ELSE fileDone([S1 EXCEPT !.errorLog = Append(@, p)], w)

\* the line loop of processFileForAIComments from line number from on, up
\* to the first await of the next triggerCodeModification call
scanFrom(S, w, lines, from) ==
    LET j == nextModify(lines, from) IN
    IF j = 0 THEN fileDone(S, w)
    ELSE [S EXCEPT !.loops[w] = [@ EXCEPT !.pc = "modGetFile",
                                          !.lines = lines, !.i = j,
                                          !.fileText = "", !.sessions = 0,
                                          !.session = "none",
                                          !.reports = <<>>,
                                          !.deleted = FALSE]]

\* the triggerCodeModification call of loop w ends: by its return
\* (failed = "none"), because a read gave nothing or was rejected ("read"),
\* because a call of the model registry, the chat client or the agent
\* manager was rejected ("agent"), or because the service's own code threw
\* ("service")
endTrigger(S, w, failed) ==
    LET L == S.loops[w] IN
    [S EXCEPT !.lastTrigger =
        [path |-> filePath(L), lineNumber |-> L.i, line |-> L.lines[L.i],
         sessions |-> L.sessions, session |-> L.session,
         deleted |-> L.deleted, failed |-> failed]]

\* what fileSystem.getFile can answer for a path
ReadOutcomes(p) == IF files[p] = Missing THEN {"null", "throw"} ELSE {"text", "throw"}

\* processFileForAIComments after its await of getFile
afterGetFile(S, w, outcome) ==
    LET text == files[filePath(S.loops[w])] IN
    IF outcome = "throw" THEN fileError(S, w)
    ELSE IF variant = "registry"
         THEN IF outcome = "null" THEN fileError(S, w)
              ELSE scanFrom([S EXCEPT !.loops[w].text = text], w, split(text), 1)
         ELSE IF outcome = "null" \/ text = "" THEN fileDone(S, w)
              ELSE scanFrom([S EXCEPT !.loops[w].text = text], w, split(text), 1)

\* the sentence of the message that tells the model which lines to remove
PostCondition == "You MUST remove any lines that end with AI!."

\* the user message triggerCodeModification builds: its sentences, the
\* path twice and the content just read, trimmed; the content of the
\* comment is not put into it.  CodeWatchService.ts begins it with ":",
\* part_002 with "/chat " and indents every line by four spaces
message(path, fileText) ==
    LET lead == IF variant = "registry" THEN ":" ELSE "/chat "
        nl == IF variant = "registry" THEN "\n" ELSE "\n    "
    IN trim(nl \o lead \o "The user has edited the file " \o path
            \o ", adding instructions to the file, which they expect AI to execute."
            \o nl \o "Look for any lines in the file marked with the tag AI!, "
            \o "which contain the users instructions."
            \o nl \o "Complete the instructions in that line or in any nearby "
            \o "comments, using any tools available to you to complete the task."
            \o nl \o "Once complete, update the file using the file command. "
            \o PostCondition
            \o " It is a critical failure to leave these lines in the file."
            \o nl \o "Afterwards, print a one sentence summary of the changes "
            \o "made to the file."
            \o "\n" \o nl \o "Here is the current, up to date version of the file "
            \o path \o ":" \o "\n" \o nl \o fileText)

\* a triggerCodeModification that builds its message from the content the
\* line loop has read
afterModGetFile_scanContent(S, w, outcome) ==
    LET L == S.loops[w]
        S1 == [S EXCEPT !.loops[w].fileText = L.text]
    IN IF outcome = "throw" THEN fileError(endTrigger(S, w, "read"), w)
       ELSE IF variant = "registry"
            THEN IF outcome = "null" THEN fileError(endTrigger(S, w, "read"), w)
                 ELSE [S1 EXCEPT !.loops[w].pc = "getFirstOnlineClient"]
            ELSE IF outcome = "null" \/ files[filePath(L)] = ""
                 THEN scanFrom(endTrigger([S EXCEPT !.loops[w].skipped = @ + 1],
                                          w, "read"),
                               w, L.lines, L.i + 1)
                 ELSE IF variant = "agentTeam"
                      THEN fileError(endTrigger(S1, w, "service"), w)
                      ELSE [S1 EXCEPT !.loops[w].pc = "spawnAgent"]

\* triggerCodeModification after its await of getFile.  CodeWatchService.ts
\* goes on to getFirstOnlineClient and part_002 to spawnAgentFromConfig;
\* part_001 calls this.agentTeam.createAgent on the unassigned
\* this.agentTeam, which throws.  part_001 and part_002 return on an empty
\* read and the line loop goes on
afterModGetFile(S, w, outcome) ==
    LET L == S.loops[w]
        S1 == [S EXCEPT !.loops[w].fileText = files[filePath(L)]]
    IN IF outcome = "throw" THEN fileError(endTrigger(S, w, "read"), w)
       ELSE IF variant = "registry"
            THEN IF outcome = "null" THEN fileError(endTrigger(S, w, "read"), w)
                 ELSE [S1 EXCEPT !.loops[w].pc = "getFirstOnlineClient"]
            ELSE IF outcome = "null" \/ files[filePath(L)] = ""
                 THEN scanFrom(endTrigger([S EXCEPT !.loops[w].skipped = @ + 1],
                                          w, "read"),
                               w, L.lines, L.i + 1)
                 ELSE IF variant = "agentTeam"
                      THEN fileError(endTrigger(S1, w, "service"), w)
                      ELSE [S1 EXCEPT !.loops[w].pc = "spawnAgent"]

\* the awaits of triggerCodeModification after the read, in order:
\* getFirstOnlineClient, createChatRequest and textChat in
\* CodeWatchService.ts; spawnAgentFromConfig, agent.waitForState and, in the
\* finally block, deleteAgent in part_002 (deleteAgentRethrow when the try
\* block threw)
AgentStages ==
    {"getFirstOnlineClient", "createChatRequest", "textChat",
     "spawnAgent", "waitForState", "deleteAgent", "deleteAgentRethrow"}

\* the session of a trigger: the textChat request of CodeWatchService.ts,
\* running from the call to its settlement; in part_002 the spawned agent,
\* idle until handleInput has given it the message, then running until its
\* input.handled event or the maxRunTime timer
SessionStates == {"none", "idle", "running", "done", "failed", "timedOut"}

\* a triggerCodeModification that leaves the agent of a timed-out session
\* alone
afterAgentStage_leaksOnTimeout(S, w, ok) ==
    LET L == S.loops[w]
        goto(stage) == [S EXCEPT !.loops[w].pc = stage]
        returns(S1) == scanFrom(endTrigger(S1, w, "none"), w, L.lines, L.i + 1)
        throws(S1) == fileError(endTrigger(S1, w, "agent"), w)
    IN CASE L.pc = "getFirstOnlineClient" ->
              IF ok THEN goto("createChatRequest") ELSE throws(S)
         [] L.pc = "createChatRequest" ->
              IF ok THEN [S EXCEPT !.loops[w].pc = "textChat",
                                   !.loops[w].sessions = @ + 1,
                                   !.loops[w].session = "running",
                                   !.loops[w].invoked = Append(@, L.i)]
              ELSE throws(S)
         [] L.pc = "textChat" ->
              IF ok THEN returns([S EXCEPT !.loops[w].session = "done"])
              ELSE throws([S EXCEPT !.loops[w].session = "failed"])
         [] L.pc = "spawnAgent" ->
              IF ok THEN [S EXCEPT !.loops[w].pc = "waitForState",
                                   !.loops[w].sessions = @ + 1,
                                   !.loops[w].session = "idle",
                                   !.loops[w].invoked = Append(@, L.i)]
              ELSE throws(S)
         [] L.pc = "waitForState" ->
              IF ok THEN [S EXCEPT !.loops[w].pc = "deleteAgent",
                                   !.loops[w].session = "running"]
              ELSE goto("deleteAgentRethrow")
         [] L.pc = "deleteAgent" ->
              IF L.session = "timedOut" THEN returns(S)
              ELSE IF ok THEN returns([S EXCEPT !.loops[w].deleted = TRUE])
              ELSE throws(S)
         [] L.pc = "deleteAgentRethrow" ->
              IF ok THEN throws([S EXCEPT !.loops[w].deleted = TRUE])
              ELSE throws(S)

\* part_002 after agent.waitForState: handleInput, subscribeState and
\* setTimeout run without an await, and the finally block awaits deleteAgent
afterAgentStage(S, w, ok) ==
    LET L == S.loops[w]
        goto(stage) == [S EXCEPT !.loops[w].pc = stage]
        returns(S1) == scanFrom(endTrigger(S1, w, "none"), w, L.lines, L.i + 1)
        throws(S1) == fileError(endTrigger(S1, w, "agent"), w)
    IN CASE L.pc = "getFirstOnlineClient" ->
              IF ok THEN goto("createChatRequest") ELSE throws(S)
         [] L.pc = "createChatRequest" ->
              IF ok THEN [S EXCEPT !.loops[w].pc = "textChat",
                                   !.loops[w].sessions = @ + 1,
                                   !.loops[w].session = "running",
                                   !.loops[w].invoked = Append(@, L.i)]
              ELSE throws(S)
         [] L.pc = "textChat" ->
              IF ok THEN returns([S EXCEPT !.loops[w].session = "done"])
              ELSE throws([S EXCEPT !.loops[w].session = "failed"])
         [] L.pc = "spawnAgent" ->
              IF ok THEN [S EXCEPT !.loops[w].pc = "waitForState",
                                   !.loops[w].sessions = @ + 1,
                                   !.loops[w].session = "idle",
                                   !.loops[w].invoked = Append(@, L.i)]
              ELSE throws(S)
         [] L.pc = "waitForState" ->
              IF ok THEN [S EXCEPT !.loops[w].pc = "deleteAgent",
                                   !.loops[w].session = "running"]
              ELSE goto("deleteAgentRethrow")
         [] L.pc = "deleteAgent" ->
              IF ok THEN returns([S EXCEPT !.loops[w].deleted = TRUE])
              ELSE throws(S)
         [] L.pc = "deleteAgentRethrow" ->
              IF ok THEN throws([S EXCEPT !.loops[w].deleted = TRUE])
              ELSE throws(S)

\* a callback of part_002 runs while deleteAgent is awaited.  The
\* subscribeState callback sees input.handled for the request, unsubscribes
\* and writes "Code modification complete"; it leaves the timer set.  The
\* setTimeout callback unsubscribes and writes "Code modification timed
\* out", whether or not the completion has been seen
agentCallback(S, w, event) ==
    IF event = "input.handled"
    THEN [S EXCEPT !.loops[w].session = "done",
                   !.loops[w].reports = Append(@, "complete")]
    ELSE [S EXCEPT !.loops[w].session =
                      IF @ = "running" THEN "timedOut" ELSE @,
                   !.loops[w].reports = Append(@, "timedOut")]

(***************************************************************************)
(* Actions.                                                                *)
(***************************************************************************)
\* what the observer notes when an add or change event for p is delivered
noteChange(S, p) ==
    LET newBurst == \/ S.sinceEvent[p] = Never
                    \/ S.sinceEvent[p] >= StabilityThreshold
    IN [S EXCEPT
          !.enqLog = IF InSeq(p, S.modifiedFiles) THEN @ ELSE Append(@, p),
          !.unlinkedPending[p] = FALSE,
          !.sinceEvent[p] = 0,
          !.burstTasks[p] = IF newBurst THEN 0 ELSE @,
          !.rerun[p] = @ \/ \E w \in DOMAIN S.loops : filePath(S.loops[w]) = p]

\* what the observer notes when any other event for p is delivered
noteOther(S, eventType, p) ==
    [S EXCEPT !.unlinkedPending[p] =
                 @ \/ (eventType = "unlink" /\ InSeq(p, S.modifiedFiles))]

\* an onFileChanged whose unlink removes the path from modifiedFiles
fileChanged_unlinkCancels(S, eventType, p) ==
    IF eventType = "add" \/ eventType = "change"
    THEN processNextFile([S EXCEPT !.modifiedFiles = SetAdd(@, p)])
    ELSE [S EXCEPT !.modifiedFiles = SelectSeq(@, LAMBDA q : q # p)]

\* the body of onFileChanged
fileChanged(S, eventType, p) ==
    IF eventType = "add" \/ eventType = "change"
    THEN processNextFile([S EXCEPT !.modifiedFiles = SetAdd(@, p)])
    ELSE S

\* a watcher delivers an event to onFileChanged; a watcher whose close()
\* has been called delivers none
onFileChanged(eventType, p) ==
    /\ openWatchers # {}
    /\ nEvents < MaxEvents
    /\ nEvents' = nEvents + 1
    /\ lastEvent' = [kind |-> eventType, path |-> p]
    /\ IF eventType \in {"add", "change"}
       THEN /\ changes' = [changes EXCEPT ![p] = @ + 1]
            /\ Becomes(fileChanged(noteChange(St, p), eventType, p))
       ELSE /\ changes' = changes
            /\ Becomes(fileChanged(noteOther(St, eventType, p), eventType, p))
    /\ UNCHANGED <<variant, files, nEdits, scanVars, watcher, watchVars>>

\* the getFile awaited by processFileForAIComments settles
GetFileSettles(w) ==
    /\ loops[w].pc = "getFile"
    /\ \E outcome \in ReadOutcomes(filePath(loops[w])) :
          Becomes(afterGetFile(St, w, outcome))
    /\ UNCHANGED <<variant, files, nEvents, nEdits, lastEvent, changes, scanVars, watcher, watchVars>>

\* the getFile awaited by triggerCodeModification settles
ModGetFileSettles(w) ==
    /\ loops[w].pc = "modGetFile"
    /\ \E outcome \in ReadOutcomes(filePath(loops[w])) :
          Becomes(afterModGetFile(St, w, outcome))
    /\ UNCHANGED <<variant, files, nEvents, nEdits, lastEvent, changes, scanVars, watcher, watchVars>>

\* one of the later awaits of triggerCodeModification settles
AgentStageSettles(w) ==
    /\ loops[w].pc \in AgentStages
    /\ \E ok \in BOOLEAN : Becomes(afterAgentStage(St, w, ok))
    /\ UNCHANGED <<variant, files, nEvents, nEdits, lastEvent, changes, scanVars, watcher, watchVars>>

\* somebody (the user, or the model through its file tool) writes or
\* deletes a watched file
EditFile(p, content) ==
    /\ nEdits < MaxEdits
    /\ content # files[p]
    /\ files' = [files EXCEPT ![p] = content]
    /\ nEdits' = nEdits + 1
    /\ lastTrigger' = NoTrigger
    /\ UNCHANGED <<variant, modifiedFiles, isProcessing, loops, errorLog,
                   nEvents, lastEvent, changes, enqLog, scanLog,
                   unlinkedPending, staleTakes, sinceEvent, earlyTakes,
                   burstTasks, thrown, rerun, scanVars, watcher, watchVars>>

\* time passes
Min(a, b) == IF a < b THEN a ELSE b

Tick ==
    /\ \E p \in Paths : sinceEvent[p] # Never /\ sinceEvent[p] < StabilityThreshold
    /\ sinceEvent' = [p \in Paths |->
                        IF sinceEvent[p] = Never THEN Never
                        ELSE Min(sinceEvent[p] + TickMs, StabilityThreshold)]
    /\ lastTrigger' = NoTrigger
    /\ UNCHANGED <<variant, modifiedFiles, isProcessing, loops, files,
                   errorLog, nEvents, nEdits, lastEvent, changes, enqLog,
                   scanLog, unlinkedPending, staleTakes, earlyTakes,
                   burstTasks, thrown, rerun, scanVars, watcher, watchVars>>

\* an event of the spawned agent reaches the subscription, which lasts
\* until one of the callbacks has unsubscribed, or the timer fires, which
\* it does once.  The timer of a call that has returned writes its line
\* too; no variable keeps the lines of calls that have returned
AgentCallback(w) ==
    /\ loops[w].pc = "deleteAgent"
    /\ \E event \in {"input.handled", "timeout"} :
          /\ event = "input.handled" => loops[w].session = "running"
          /\ event = "timeout" => /\ loops[w].session \in {"running", "done"}
                                  /\ ~InSeq("timedOut", loops[w].reports)
          /\ Becomes(agentCallback(St, w, event))
    /\ UNCHANGED <<variant, files, nEvents, nEdits, lastEvent, changes, scanVars, watcher, watchVars>>

\* a watcher error that drops what is pending
watcherError_dropsPending(S) == [S EXCEPT !.modifiedFiles = <<>>]

\* the handler of the watcher's error event: console.error and nothing else
watcherError(S) == S

\* the watcher emits an error event
onWatcherError ==
    /\ openWatchers # {}
    /\ nEvents < MaxEvents
    /\ nEvents' = nEvents + 1
    /\ lastEvent' = [kind |-> "error", path |-> "none"]
    /\ Becomes(watcherError(St))
    /\ UNCHANGED <<variant, files, nEdits, changes, scanVars, watcher, watchVars>>

\* what this.watcher is to the service: an open watcher, one whose close()
\* is awaited, or none
WatcherStatus(tw, open, calls) ==
    IF tw # NoWatcher /\ tw \in open THEN "watching"
    ELSE IF \E c \in DOMAIN calls : calls[c].pc = "close" THEN "closing"
    ELSE "closed"

\* a step of startWatching or stopWatching: nothing of the file processing
\* changes, and watcher follows this.watcher
WatchStep ==
    /\ watcher' = WatcherStatus(thisWatcher', openWatchers', watchCalls')
    /\ lastTrigger' = NoTrigger
    /\ UNCHANGED <<variant, modifiedFiles, isProcessing, loops, files,
                   errorLog, nEvents, nEdits, lastEvent, changes, enqLog,
                   scanLog, unlinkedPending, staleTakes, sinceEvent,
                   earlyTakes, burstTasks, thrown, rerun, scanVars>>

\* startWatching up to its first await: with a watcher in this.watcher it
\* calls close() on it and awaits that, else it calls fileSystem.watch and
\* awaits that
startWatching ==
    /\ nCalls < MaxCalls
    /\ nCalls' = nCalls + 1
    /\ IF thisWatcher # NoWatcher
       THEN /\ openWatchers' = openWatchers \ {thisWatcher}
            /\ watchCalls' = Append(watchCalls, [op |-> "start", pc |-> "close"])
       ELSE /\ openWatchers' = openWatchers
            /\ watchCalls' = Append(watchCalls, [op |-> "start", pc |-> "watch"])
    /\ UNCHANGED <<thisWatcher, made>>
    /\ WatchStep

\* the close() awaited by startWatching settles: it calls fileSystem.watch
PreviousCloseSettles(c) ==
    /\ watchCalls[c] = [op |-> "start", pc |-> "close"]
    /\ watchCalls' = [watchCalls EXCEPT ![c].pc = "watch"]
    /\ UNCHANGED <<thisWatcher, openWatchers, made, nCalls>>
    /\ WatchStep

\* the fileSystem.watch awaited by startWatching settles: the new watcher
\* is assigned to this.watcher and gets its handlers
WatchSettles(c) ==
    /\ watchCalls[c] = [op |-> "start", pc |-> "watch"]
    /\ made' = made + 1
    /\ openWatchers' = openWatchers \cup {made + 1}
    /\ thisWatcher' = made + 1
    /\ watchCalls' = RemoveAt(watchCalls, c)
    /\ UNCHANGED nCalls
    /\ WatchStep

\* stop() in CodeWatchService.ts and part_001, the abort handler of run() in
\* part_002: stopWatching calls close() on the watcher in this.watcher,
\* which delivers no event from then on, and awaits it; with no watcher it
\* returns
stopWatching ==
    /\ nCalls < MaxCalls
    /\ nCalls' = nCalls + 1
    /\ IF thisWatcher # NoWatcher
       THEN /\ openWatchers' = openWatchers \ {thisWatcher}
            /\ watchCalls' = Append(watchCalls, [op |-> "stop", pc |-> "close"])
       ELSE UNCHANGED <<openWatchers, watchCalls>>
    /\ UNCHANGED <<thisWatcher, made>>
    /\ WatchStep

\* the close() awaited by stopWatching settles; CodeWatchService.ts then
\* sets this.watcher to null, part_001 and part_002 leave it as it is
WatcherCloseSettles(c) ==
    /\ watchCalls[c] = [op |-> "stop", pc |-> "close"]
    /\ thisWatcher' = IF variant = "registry" THEN NoWatcher ELSE thisWatcher
    /\ watchCalls' = RemoveAt(watchCalls, c)
    /\ UNCHANGED <<openWatchers, made, nCalls>>
    /\ WatchStep

\* one pass of the line loop of processFileForAIComments over scanText; the
\* loop is the same in the three generations
ScanLine ==
    LET lines == split(scanText) IN
    /\ scanPos < Len(lines)
    /\ triggers' = triggers \o triggerOf(lines[scanPos + 1], scanPos)
    /\ scanPos' = scanPos + 1
    /\ UNCHANGED <<variant, modifiedFiles, isProcessing, loops, files,
                   errorLog, nEvents, nEdits, lastEvent, changes, enqLog,
                   scanLog, unlinkedPending, staleTakes, sinceEvent,
                   earlyTakes, burstTasks, thrown, rerun, lastTrigger,
                   scanText, watcher, watchVars>>

Next ==
    \/ \E eventType \in EventTypes, p \in Paths : onFileChanged(eventType, p)
    \/ \E w \in DOMAIN loops : GetFileSettles(w)
    \/ \E w \in DOMAIN loops : ModGetFileSettles(w)
    \/ \E w \in DOMAIN loops : AgentStageSettles(w)
    \/ \E w \in DOMAIN loops : AgentCallback(w)
    \/ \E p \in Paths, content \in Texts \cup {Missing} : EditFile(p, content)

Spec == Init /\ [][Next]_vars

NextTimed == Next \/ Tick

SpecTimed == Init /\ [][NextTimed]_vars

\* the service with a watcher that also reports errors
NextWatcherError == Next \/ onWatcherError

SpecWatcherError == Init /\ [][NextWatcherError]_vars

\* the service with its shutdown
NextStop ==
    \/ Next
    \/ stopWatching
    \/ \E c \in DOMAIN watchCalls : WatcherCloseSettles(c)

SpecStop == Init /\ [][NextStop]_vars

\* the watcher's life on its own, from the constructed service on, whose
\* this.watcher is null: startWatching and stopWatching calls in any
\* order, also one begun while another is at an await
InitWatch ==
    /\ InitService
    /\ files = [p \in Paths |-> PlainText]
    /\ scanText = ""
    /\ scanPos = 0
    /\ triggers = <<>>
    /\ watcher = "closed"
    /\ thisWatcher = NoWatcher
    /\ openWatchers = {}
    /\ made = 0
    /\ watchCalls = <<>>
    /\ nCalls = 0

NextWatch ==
    \/ startWatching
    \/ stopWatching
    \/ \E c \in DOMAIN watchCalls : PreviousCloseSettles(c)
    \/ \E c \in DOMAIN watchCalls : WatchSettles(c)
    \/ \E c \in DOMAIN watchCalls : WatcherCloseSettles(c)

SpecWatch == InitWatch /\ [][NextWatch]_vars

\* the scanner on its own: every content of ScanTexts, line by line
InitScan ==
    /\ InitService
    /\ Started
    /\ variant = "registry"
    /\ files = [p \in Paths |-> PlainText]
    /\ scanText \in ScanTexts
    /\ scanPos = 0
    /\ triggers = <<>>

NextScan == ScanLine

SpecScan == InitScan /\ [][NextScan]_vars

TypeOK ==
    /\ variant \in Variants
    /\ isProcessing \in BOOLEAN
    /\ \A j \in 1..Len(modifiedFiles) : modifiedFiles[j] \in Paths
    /\ \A w \in DOMAIN loops :
          /\ loops[w].k \in 1..Len(loops[w].myFiles)
          /\ loops[w].pc \in {"getFile", "modGetFile"} \cup AgentStages
          /\ loops[w].session \in SessionStates
    /\ files \in [Paths -> Texts \cup {Missing}]
    /\ nEvents \in 0..MaxEvents
    /\ nEdits \in 0..MaxEdits
    /\ watcher \in {"watching", "closing", "closed"}
    /\ thisWatcher \in 0..made
    /\ openWatchers \subseteq 1..made
    /\ nCalls \in 0..MaxCalls

(***************************************************************************)
(* Properties.                                                             *)
(***************************************************************************)
IsChange(ev) == ev.kind \in {"add", "change"}

\* the files a loop has still to start, and the one it is working on
Waiting(L) == SubSeq(L.myFiles, L.k + 1, Len(L.myFiles))
Executing(p) == \E w \in DOMAIN loops : filePath(loops[w]) = p
QueuedOrExecuting(p) ==
    \E w \in DOMAIN loops : filePath(loops[w]) = p \/ InSeq(p, Waiting(loops[w]))

\* C1: add/change events on one path that arrive within stabilityThreshold
\* of each other produce exactly one task: no path is taken into a batch
\* twice within one burst of events.
C1_OneTaskPerBurst == \A p \in Paths : burstTasks[p] <= 1

\* C2: a task for a path is created only after stabilityThreshold has
\* passed since the most recent add/change event for that path.
C2_TaskOnlyAfterThreshold == earlyTakes = {}

\* C3: an unlink for a path that is in the pending collection cancels the
\* entry: the path is no longer pending and is not taken into a batch.
C3_UnlinkCancelsPending ==
    /\ \A p \in Paths : unlinkedPending[p] => ~InSeq(p, modifiedFiles)
    /\ staleTakes = {}

\* C4: the pending collection holds every path at most once, however many
\* add/change events arrived for it.
C4_OnePendingPerPath == \A p \in Paths : Count(p, modifiedFiles) <= 1

\* a path is pending once although more add/change events arrived for it
\* than entries were inserted, the last of them just now
C4_Witness ==
    \E p \in Paths :
        /\ IsChange(lastEvent) /\ lastEvent.path = p
        /\ Count(p, modifiedFiles) = 1
        /\ changes[p] > Count(p, enqLog)

\* the awaits during which a model call or an agent of the service exists
InvocationStages == {"textChat", "waitForState", "deleteAgent", "deleteAgentRethrow"}

ActiveInvocations ==
    Cardinality({w \in DOMAIN loops : loops[w].pc \in InvocationStages})

\* C5: at most concurrency (1 by default, and so at most N for every
\* N >= 1) agent invocations are active at once.
C5_InvocationsWithinConcurrency == ActiveInvocations <= Concurrency

\* an invocation for one file is active while a different file waits
C5_Witness ==
    \E w \in DOMAIN loops :
        /\ loops[w].pc \in InvocationStages
        /\ \E q \in Paths \ {filePath(loops[w])} :
              InSeq(q, modifiedFiles) \/ InSeq(q, Waiting(loops[w]))

\* the flag says a batch is running and no processNextFile call is alive:
\* every later processNextFile call returns at its first test
Halted == isProcessing /\ loops = <<>>

\* C6: a failure while processing a file is caught and logged for that file
\* only and does not halt the queue.
C6_FailureDoesNotHaltQueue ==
    thrown # <<>> => (errorLog = thrown /\ ~Halted)

\* entries of p taken out of modifiedFiles so far, and entries of p that a
\* live loop has taken and not started yet
TakenCount(p) == Count(p, enqLog) - Count(p, modifiedFiles)
WaitingCount(p) ==
    Cardinality({wj \in (DOMAIN loops) \X (1..Cardinality(Paths)) :
                    /\ wj[2] > loops[wj[1]].k
                    /\ wj[2] <= Len(loops[wj[1]].myFiles)
                    /\ loops[wj[1]].myFiles[wj[2]] = p})

\* C7: every entry taken out of the pending collection is scanned exactly
\* once: the entries taken are the entries scanned plus those a running
\* batch has still to scan, none is scanned twice and none is dropped.
C7_ConsumedExactlyOnce ==
    \A p \in Paths : TakenCount(p) = Count(p, scanLog) + WaitingCount(p)

\* C8: paths are scanned in the order they were inserted into the pending
\* collection, and onFileChanged accepts an add/change for every path in
\* every state.
C8_FifoAndNeverBlocked ==
    /\ IsPrefix(scanLog, enqLog)
    /\ nEvents < MaxEvents => \A p \in Paths : ENABLED onFileChanged("change", p)

\* three scans have started, of two different paths, while a batch ran
C8_Witness ==
    /\ Len(scanLog) >= 3
    /\ scanLog[2] # scanLog[1]
    /\ scanLog[3] # scanLog[2]

\* C9: an add/change for a path that is being processed produces a second
\* task: the path is pending while the running task goes on, and it is
\* scanned again once the running task has ended.
C9_RerunAfterRunningTask ==
    \A p \in Paths : rerun[p] => (InSeq(p, modifiedFiles) /\ loops # <<>>)

\* C10: an unlink for a path that is queued or being processed changes
\* neither the pending collection nor the processing state.
C10_UnlinkLeavesQueuedTask ==
    [][\A p \in Paths :
          (/\ nEvents' = nEvents + 1
           /\ lastEvent' = [kind |-> "unlink", path |-> p]
           /\ QueuedOrExecuting(p))
          => UNCHANGED <<modifiedFiles, isProcessing, loops, scanLog, errorLog>>]_vars

\* an unlink has just arrived for a path that is pending and is also being
\* processed by the running batch
C10_Witness ==
    \E p \in Paths :
        /\ lastEvent = [kind |-> "unlink", path |-> p]
        /\ QueuedOrExecuting(p)
        /\ InSeq(p, modifiedFiles)

(***************************************************************************)
(* Properties of the scanner, over the lines of scanText gone through.     *)
(***************************************************************************)
ScanLines == split(scanText)
ScanComplete == scanPos = Len(ScanLines)
TriggerSet == {triggers[j] : j \in 1..Len(triggers)}
TriggerAt(k) == \E t \in TriggerSet : t.lineNumber = k

\* the line, trimmed, begins with a comment marker
IsCandidate(rawLine) ==
    startsWith(trim(rawLine), "#") \/ startsWith(trim(rawLine), "//")

\* the prefixes and suffixes that make a comment line a directive
IsDirectiveText(line) ==
    \/ startsWith(line, "# AI") \/ startsWith(line, "// AI")
    \/ endsWith(line, "AI") \/ endsWith(line, "AI!") \/ endsWith(line, "AI?")

\* C11: only lines that begin, after trimming, with "#" or "//" are tested:
\* a line that begins with neither yields no trigger, whatever marker it
\* contains.
C11_OnlyCommentLinesTested ==
    \A k \in 1..scanPos : ~IsCandidate(ScanLines[k]) => ~TriggerAt(k)

\* a line that is no comment and contains AI! has been gone through
C11_Witness ==
    \E k \in 1..scanPos :
        /\ ~IsCandidate(ScanLines[k])
        /\ includes(ScanLines[k], "AI!")
        /\ ~TriggerAt(k)

\* C12: a comment line is a directive if and only if it starts with "# AI"
\* or "// AI" or ends with "AI", "AI!" or "AI?"; a marker in the middle of
\* the line only does not make it one.
C12_DirectiveByPrefixOrSuffix ==
    \A k \in 1..scanPos :
        IsCandidate(ScanLines[k]) =>
            (TriggerAt(k) <=> IsDirectiveText(trim(ScanLines[k])))

\* a comment line with AI! in the middle only has been gone through
C12_Witness ==
    \E k \in 1..scanPos :
        /\ IsCandidate(ScanLines[k])
        /\ includes(ScanLines[k], "AI!")
        /\ ~IsDirectiveText(trim(ScanLines[k]))
        /\ ~TriggerAt(k)

\* the kind the fixed precedence gives a directive line
KindByPrecedence(line) ==
    IF includes(line, "AI!") THEN "Modify"
    ELSE IF includes(line, "AI?") THEN "Question"
    ELSE "Note"

\* C13: the kind of a directive is Modify if the comment contains "AI!"
\* anywhere, else Question if it contains "AI?", else Note; a line with
\* both "AI?" and "AI!" is Modify.
C13_KindPrecedence ==
    \A t \in TriggerSet :
        /\ t.lineNumber \in 1..scanPos
        /\ t.kind = KindByPrecedence(trim(ScanLines[t.lineNumber]))

\* a directive with "AI?" before "AI!" was classified Modify
C13_Witness ==
    \E t \in TriggerSet :
        /\ t.kind = "Modify"
        /\ \E j \in 1..(Len(t.instructionText) - 2) :
              /\ SubSeq(t.instructionText, j, j + 2) = "AI?"
              /\ includes(substring(t.instructionText, j + 2), "AI!")

\* C14: the instruction text of every directive is the comment with its
\* leading comment marker removed and the AI marker kept: it contains the
\* AI marker and does not begin with "#" or "//".
C14_MarkerStripped ==
    \A t \in TriggerSet :
        /\ includes(t.instructionText, "AI")
        /\ ~startsWith(t.instructionText, "#")
        /\ ~startsWith(t.instructionText, "//")

\* C15: every trigger carries the 1-based index of its line in the newline
\* split of the content: the triggers are, in ascending order, exactly the
\* directive lines gone through.
C15_OneBasedLineNumbers ==
    /\ \A t \in TriggerSet :
          /\ t.lineNumber \in 1..scanPos
          /\ IsCandidate(ScanLines[t.lineNumber])
          /\ IsDirectiveText(trim(ScanLines[t.lineNumber]))
    /\ \A k \in 1..scanPos :
          (IsCandidate(ScanLines[k]) /\ IsDirectiveText(trim(ScanLines[k])))
              => TriggerAt(k)
    /\ \A j \in 1..(Len(triggers) - 1) :
          triggers[j].lineNumber < triggers[j + 1].lineNumber

\* the only directive of a content is on its third line and was reported
C15_Witness ==
    /\ ScanComplete
    /\ Len(triggers) = 1
    /\ triggers[1].lineNumber = 3

\* C17: a content in which no line with "AI!" is left yields no Modify
\* trigger when it is scanned.
C17_RescanFindsNoModify ==
    (\A k \in 1..Len(ScanLines) : ~includes(ScanLines[k], "AI!"))
        => \A t \in TriggerSet : t.kind # "Modify"

\* a content without "AI!" was scanned to its end and had a question in it
C17_Witness ==
    /\ ScanComplete
    /\ \A k \in 1..Len(ScanLines) : ~includes(ScanLines[k], "AI!")
    /\ \E t \in TriggerSet : t.kind = "Question"

\* the line gone through as number k gave a Modify trigger
ModifyAt(k) ==
    \E t \in TriggerSet : t.lineNumber = k /\ t.kind = "Modify"

\* the line, trimmed, starts with "# AI" or "// AI"
HasAIPrefix(rawLine) ==
    startsWith(trim(rawLine), "# AI") \/ startsWith(trim(rawLine), "// AI")

TriggerLine(L) == L.lines[L.i]

IsQuestionLine(rawLine) ==
    /\ IsCandidate(rawLine)
    /\ IsDirectiveText(trim(rawLine))
    /\ includes(rawLine, "AI?")
    /\ ~includes(rawLine, "AI!")

\* C16: only Modify reaches a consumer: whenever a loop is inside
\* triggerCodeModification, reading the file again or invoking the agent,
\* the line it was called for is a directive that contains "AI!"; Question
\* and Note lines are passed over without any state of their own.
C16_OnlyModifyInvokes ==
    \A w \in DOMAIN loops :
        loops[w].pc # "getFile" =>
            /\ IsCandidate(TriggerLine(loops[w]))
            /\ IsDirectiveText(trim(TriggerLine(loops[w])))
            /\ includes(TriggerLine(loops[w]), "AI!")

\* an invocation is active for a line that comes after a Question line
C16_Witness ==
    \E w \in DOMAIN loops :
        /\ loops[w].pc \in InvocationStages
        /\ \E k \in 1..(loops[w].i - 1) : IsQuestionLine(loops[w].lines[k])

\* the awaits that follow the read of triggerCodeModification directly
AfterReadStages == {"getFirstOnlineClient", "spawnAgent"}

\* C18: the content placed in the message of an invocation is the content
\* of the file when triggerCodeModification read it, not the content the
\* line loop scanned.
C18_PayloadIsFreshRead ==
    [][\A w \in DOMAIN loops :
          (/\ loops[w].pc = "modGetFile"
           /\ w \in DOMAIN loops'
           /\ loops'[w].pc \in AfterReadStages)
          => loops'[w].fileText = files[filePath(loops[w])]]_vars

\* the file was edited between the scan and the read of the invocation
C18_Witness ==
    \E w \in DOMAIN loops :
        /\ loops[w].pc \in AfterReadStages
        /\ loops[w].fileText # loops[w].text
        /\ loops[w].fileText = files[filePath(loops[w])]

\* C19: every Modify trigger gets exactly one session: never two, and one
\* unless the read of the file or a call of the agent runtime failed.
C19_OneSessionPerTrigger ==
    /\ \A w \in DOMAIN loops : loops[w].sessions <= 1
    /\ lastTrigger.sessions <= 1
    /\ (lastTrigger # NoTrigger /\ lastTrigger.failed \notin {"read", "agent"})
          => lastTrigger.sessions = 1

\* C20: the worker leaves a trigger only when its session has reported
\* completion or an error or has timed out: no triggerCodeModification call
\* ends while its session is still running.
C20_WorkerWaitsForSession == lastTrigger.session # "running"

(***************************************************************************)
(* Properties of the agent invocation and of the batch loop.               *)
(***************************************************************************)
\* C21 as stated: on timeout the worker logs and goes on, and the service
\* does not delete the session's agent.
C21_TimeoutLeavesSession ==
    ~(lastTrigger.session = "timedOut" /\ lastTrigger.deleted)

\* C21 as amended: the timer callback only unsubscribes and logs; the agent
\* of a timed-out session is deleted by the finally block of
\* triggerCodeModification exactly when deleteAgent resolves, and the worker
\* goes on.
C21_TimedOutAgentIsDeleted ==
    lastTrigger.session = "timedOut" =>
        (lastTrigger.deleted <=> lastTrigger.failed = "none")

\* a call has just returned whose session had timed out and whose agent
\* deleteAgent had deleted
C21_Witness ==
    /\ lastTrigger.session = "timedOut"
    /\ lastTrigger.deleted
    /\ lastTrigger.failed = "none"

\* the awaits at which the message of the invocation has been built
MessageStages ==
    IF variant = "registry"
    THEN {"getFirstOnlineClient", "createChatRequest", "textChat"}
    ELSE {"waitForState", "deleteAgent", "deleteAgentRethrow"}

\* the content handleAIComment hands to triggerCodeModification
instructionOf(L) == commentContent(trim(TriggerLine(L)))

\* C22: the message of an invocation contains the content just read, the
\* instruction text of the trigger, and the post-condition that the
\* triggering line must be removed: the sentence is there and the
\* triggering line is one of the lines it names.
C22_PayloadComplete ==
    \A w \in DOMAIN loops :
        loops[w].pc \in MessageStages =>
            LET L == loops[w]
                m == message(filePath(L), L.fileText)
            IN /\ includes(m, L.fileText)
               /\ includes(m, instructionOf(L))
               /\ includes(m, PostCondition)
               /\ endsWith(trim(TriggerLine(L)), "AI!")

\* C23: when the read of a queued file gives nothing or is rejected, the
\* task of that file is aborted and nothing else: the failure is logged, the
\* step makes no triggerCodeModification call and no session, and the loop
\* goes on to the next file or ends with the flag reset.
C23_UnreadableAbortsOneTask ==
    [][\A w \in DOMAIN loops :
          (/\ loops[w].pc = "getFile"
           /\ files[filePath(loops[w])] = Missing
           /\ nEvents' = nEvents /\ nEdits' = nEdits
           /\ loops' # loops)
          => /\ errorLog' = Append(errorLog, filePath(loops[w]))
             /\ ~Halted'
             /\ lastTrigger' = NoTrigger
             /\ \A v \in DOMAIN loops' : loops'[v].sessions = 0]_vars

\* C24: the service never retries: a path is scanned at most as often as
\* add/change events have arrived for it.
C24_NoAutomaticRetry ==
    \A p \in Paths : Count(p, scanLog) <= changes[p]

\* the path that failed first has been scanned a second time, after a
\* second event for it
C24_Witness ==
    /\ thrown # <<>>
    /\ Count(thrown[1], scanLog) = 2
    /\ changes[thrown[1]] = 2

\* C28: once triggerCodeModification has returned after a completed
\* session, the file no longer contains the triggering line.
C28_ServiceRemovesComment ==
    (/\ lastTrigger.failed = "none"
     /\ lastTrigger.session = "done"
     /\ files[lastTrigger.path] # Missing)
    => ~InSeq(lastTrigger.line, split(files[lastTrigger.path]))

\* C29: the invocations of one task are made for Modify lines in ascending
\* line order, one at a time, none for a line after the current one, and a
\* Modify line is passed without an invocation only when the read of the
\* file or a call of the agent runtime failed.
C29_SequentialAscending ==
    /\ \A w \in DOMAIN loops :
          LET L == loops[w] IN
          /\ \A j \in 1..Len(L.invoked) :
                /\ includes(L.lines[L.invoked[j]], "AI!")
                /\ L.invoked[j] <= L.i
                /\ j > 1 => L.invoked[j - 1] < L.invoked[j]
    /\ lastTrigger.failed # "service"
    /\ (lastTrigger # NoTrigger /\ lastTrigger.failed = "none")
          => lastTrigger.sessions >= 1

\* C30: at most one processNextFile loop is alive, and isProcessing is set
\* while it is.
C30_OneBatchLoop ==
    /\ Len(loops) <= 1
    /\ loops # <<>> => isProcessing

\* a second event arrived before the first await of the loop had settled,
\* and was left pending
C30_Witness ==
    /\ nEvents >= 2
    /\ Len(loops) = 1
    /\ loops[1].k = 1 /\ loops[1].pc = "getFile"
    /\ modifiedFiles # <<>>

(***************************************************************************)
(* Properties of the watcher's end and of its errors.                      *)
(***************************************************************************)
\* C25: stopping closes the watcher and leaves the pending paths, the flag
\* and the running loop as they are; once close() has been called no event
\* is delivered and no path enqueued; and the tasks queued before still run:
\* when the watcher is closed and no loop is left, nothing is pending.
C25_StopKeepsTasks ==
    [][/\ watcher' # watcher => UNCHANGED <<modifiedFiles, isProcessing, loops>>
       /\ watcher # "watching" => (enqLog' = enqLog /\ nEvents' = nEvents)
       /\ (watcher' = "closed" /\ loops' = <<>>) => modifiedFiles' = <<>>]_vars

\* the path of the event just delivered is pending or in the batch of a
\* loop
Accepted(ev, pending, running) ==
    \/ InSeq(ev.path, pending)
    \/ \E w \in DOMAIN running : InSeq(ev.path, running[w].myFiles)

\* C26: a watcher error is only reported: the step leaves the pending
\* paths, the flag, the loops, the logs of the file tasks and the watcher as
\* they are, and the path of an add or change event delivered right after
\* it is accepted as ever.
C26_WatcherErrorOnlyReported ==
    [][/\ (lastEvent'.kind = "error" /\ nEvents' = nEvents + 1)
            => /\ UNCHANGED <<modifiedFiles, isProcessing, loops, enqLog,
                              scanLog, errorLog, thrown>>
               /\ watcher' = "watching"
       /\ (lastEvent.kind = "error" /\ nEvents' = nEvents + 1
              /\ IsChange(lastEvent'))
            => Accepted(lastEvent', modifiedFiles', loops')]_vars

\* a watcher error arrived while a loop was running and a path was pending
C26_Witness ==
    /\ lastEvent.kind = "error"
    /\ loops # <<>>
    /\ modifiedFiles # <<>>

(***************************************************************************)
(* Properties of the batch loop's end and of failures inside a task.       *)
(***************************************************************************)
\* C31: no queued work is stranded: a path recorded while a batch is
\* running is taken when that batch ends, so whenever no processNextFile
\* loop is alive modifiedFiles is empty.
C31_NoStrandedWork ==
    \A p \in Paths : InSeq(p, modifiedFiles) => loops # <<>>

\* C32: isProcessing is true exactly while a processNextFile loop is
\* alive: it is set when the loop starts and reset when it ends, also when
\* processing a file threw.
C32_FlagTracksBatch == isProcessing <=> (loops # <<>>)

\* the loop has left the file it was processing
TaskLeft(w) == w \notin DOMAIN loops' \/ loops'[w].pc = "getFile"

\* C33: when the invocation for a Modify line fails, the task of that file
\* ends there, no further line of the file is dispatched, and the loop goes
\* on with the next file of its batch, or ends as every batch ends when
\* that file was the last.
C33_FailureEndsTaskOnly ==
    [][\A w \in DOMAIN loops :
          (/\ loops[w].pc \in AgentStages \cup {"modGetFile"}
           /\ lastTrigger'.failed \in {"agent", "service"})
          => /\ TaskLeft(w)
             /\ IF loops[w].k < Len(loops[w].myFiles)
                THEN /\ w \in DOMAIN loops'
                     /\ loops'[w] = loopAt(loops[w].myFiles, loops[w].k + 1)
                ELSE ~Halted']_vars

\* the Modify lines of a content, as the line loop finds them
ModifyCount(lines) ==
    Cardinality({j \in 1..Len(lines) : lineKind(lines[j]) = "Modify"})

\* C34: the triggers of a task are fixed by the content read at scan time:
\* when a task ends by the return of its last triggerCodeModification call,
\* it has made one invocation for every Modify line of that content, less
\* the calls that returned early on an empty read, whatever has become of
\* the file in between.
C34_InvocationsMatchScan ==
    [][\A w \in DOMAIN loops :
          (/\ loops[w].pc \in AgentStages \cup {"modGetFile"}
           /\ TaskLeft(w)
           /\ lastTrigger'.failed \in {"none", "service"})
          => Len(loops[w].invoked) + loops[w].skipped
                = ModifyCount(loops[w].lines)]_vars

(***************************************************************************)
(* Properties of the spawned agent's end.                                  *)
(***************************************************************************)
\* C35: at most one terminal outcome is reported for a session: after
\* "Code modification complete" no "timed out" line is written for it, and
\* after "timed out" no completion.
C35_OneTerminalOutcome ==
    \A w \in DOMAIN loops :
        /\ loops[w].reports # <<"complete", "timedOut">>
        /\ loops[w].reports # <<"timedOut", "complete">>
        /\ Len(loops[w].reports) <= 1

\* C36: the agent a triggerCodeModification call has spawned is deleted by
\* the time the call returns, and it is not deleted while its session,
\* once given its input, has neither reported completion nor timed out.
C36_DeletedAfterOutcome ==
    (variant = "app" /\ lastTrigger.sessions = 1)
    => /\ lastTrigger.failed = "none" => lastTrigger.deleted
       /\ (lastTrigger.deleted /\ lastTrigger.session # "idle")
             => lastTrigger.session \in {"done", "timedOut"}

\* C37: the service comes to rest after the write that removed the AI!
\* lines: when a file has been written, the last event is the change of a
\* file that holds no Modify line and no processNextFile loop is alive, the
\* service is idle: nothing is pending and the flag is reset.
C37_IdleAfterAgentWrite ==
    (/\ loops = <<>>
     /\ nEdits >= 1
     /\ lastEvent.kind = "change"
     /\ files[lastEvent.path] # Missing
     /\ ModifyCount(split(files[lastEvent.path])) = 0)
    => (modifiedFiles = <<>> /\ ~isProcessing)

(***************************************************************************)
(* Properties of startWatching and stopWatching.                           *)
(***************************************************************************)
\* C38: at most one watcher is open, whatever startWatching and
\* stopWatching calls have been made and however they overlap: every open
\* watcher is the one in this.watcher, and when no call is under way after
\* stopWatching has closed the watcher, none is open.
C38_AtMostOneWatcher ==
    /\ Cardinality(openWatchers) <= 1
    /\ \A id \in openWatchers : id = thisWatcher

====
